---- MODULE Spec2Model ----
(***************************************************************************)
(* Model of the Graph Editor "Decimate Keyframes" operator of              *)
(* source/blender/editors/space_graph/graph_edit.c: the batch routine      *)
(* decimate_graph_keys, the modal (interactive) session built by           *)
(* graphkeys_decimate_invoke / graphkeys_decimate_modal, and the           *)
(* non-interactive graphkeys_decimate_exec.                                *)
(*                                                                         *)
(* Ratios and percentages are fixed-point numbers with denominator One:    *)
(* the float f is the integer f * One, and every such float the model      *)
(* produces is exact on that grid.  Keyframe coordinates and error margins *)
(* are whole numbers.                                                      *)
(***************************************************************************)
EXTENDS Integers, Sequences, FiniteSets, TLC

(* ------------------------------ bounds -------------------------------- *)

\* Number of F-Curves in the animation data.
NumCurves == 2
\* Number of keyframes of the longest sample curve.
MaxLen == 4
\* How many pixels outside the region (on either side) the pointer may be.
Overshoot == 1
\* The history counter of updates stops counting here.
MaxCounted == 2

(* ------------------------- program constants -------------------------- *)

\* region->winx: the width of the region in pixels.
winx == 4
\* region->winrct.xmin: the window x coordinate of the region's left edge.
winrct_xmin == 2
\* The float 1.0 on the fixed-point grid; k / winx and k / 100 are exact.
One == 100 * winx
\* tDecimModes.
DECIM_RATIO == 1
DECIM_ERROR == 2
\* Larger than every squared deviation the model's curves can produce.
FLT_MAX == 1000000
\* Hard range of the "remove_ratio" property (RNA_def_float_percentage).
remove_ratio_hardmin == 0 * One
remove_ratio_hardmax_wide == 2 * One
remove_ratio_hardmax == 1 * One
\* Default of the "remove_ratio" property, 1.0f / 3.0f, cut to the grid.
remove_ratio_default == One \div 3

RPT_SKIPPING == "Decimate: Skipping non linear/bezier keyframes!"
RPT_BAKED == "Fcurve Decimate: Can't decimate baked channels. Unbake them and try again."

OPERATOR_RUNNING_MODAL == "RUNNING_MODAL"
OPERATOR_CANCELLED == "CANCELLED"
OPERATOR_FINISHED == "FINISHED"
OPERATOR_PASS_THROUGH == "RUNNING_MODAL|PASS_THROUGH"

(* ----------------------------- data model ----------------------------- *)

\* A keyframe (BezTriple): the handles are carried with the point and never
\* edited by this operator, so a point is its control point (time, value).
BezTriple(t, v) == [time |-> t, value |-> v]

\* An F-Curve: bezt is the keyframe array (has_bezt = FALSE: fcu->bezt == NULL,
\* a baked curve made of samples); fcu->totvert is Len(bezt).
FCurveBezt(pts) == [has_bezt |-> TRUE, bezt |-> pts]
FCurveBaked == [has_bezt |-> FALSE, bezt |-> <<>>]

\* The straight line of the design document: times 0..n-1, values 0..n-1.
Line(n) == [i \in 1..n |-> BezTriple(i - 1, i - 1)]
\* A curve whose interior keyframes all have different removal costs.
Bump == <<BezTriple(0, 0), BezTriple(1, 3), BezTriple(2, 1), BezTriple(4, 0)>>

SampleCurves == {FCurveBaked, FCurveBezt(Line(MaxLen)), FCurveBezt(Bump)}

\* Strictly increasing keyframe times: the invariant F-Curves are kept in.
Sorted(pts) == \A i \in 1..(Len(pts) - 1) : pts[i].time < pts[i + 1].time

(* --------------------- the decimator (decimate_fcurve) ----------------- *)
(* decimate_fcurve is defined outside graph_edit.c; it is modelled from    *)
(* the design document, section 4.1.                                       *)

SetMax(S) == CHOOSE x \in S : \A y \in S : y <= x
SetMin(S) == CHOOSE x \in S : \A y \in S : x <= y
Sq(x) == x * x

\* The kept neighbours of keyframe i within the kept index set K.
PrevKept(K, i) == SetMax({k \in K : k < i})
NextKept(K, i) == SetMin({k \in K : k > i})

\* Deviation of original keyframe j from the chord a-b, times (t_b - t_a).
Dev(pts, j, a, b) ==
    (pts[j].value - pts[a].value) * (pts[b].time - pts[a].time)
    - (pts[b].value - pts[a].value) * (pts[j].time - pts[a].time)

\* The squared deviation the curve gets over the gap a..b once every keyframe
\* strictly between a and b is gone: GapNum / GapDen.
GapNum(pts, a, b) == SetMax({0} \cup {Sq(Dev(pts, j, a, b)) : j \in (a + 1)..(b - 1)})
GapDen(pts, a, b) == Sq(pts[b].time - pts[a].time)

\* Removal cost of kept interior keyframe i, as a fraction CostNum / CostDen.
CostNum(pts, K, i) == GapNum(pts, PrevKept(K, i), NextKept(K, i))
CostDen(pts, K, i) == GapDen(pts, PrevKept(K, i), NextKept(K, i))
CostLess(pts, K, i, j) ==
    CostNum(pts, K, i) * CostDen(pts, K, j) < CostNum(pts, K, j) * CostDen(pts, K, i)

\* The globally cheapest interior keyframe, ties going to the highest index.
Cheapest_rightmost(pts, K) ==
    LET cand == K \ {1, Len(pts)}
    IN  CHOOSE i \in cand : \A j \in cand :
            \/ CostLess(pts, K, i, j)
            \/ (~CostLess(pts, K, j, i) /\ i >= j)
\* The globally cheapest interior keyframe; ties go to the lowest index.
Cheapest(pts, K) ==
    LET cand == K \ {1, Len(pts)}
    IN  CHOOSE i \in cand : \A j \in cand :
            \/ CostLess(pts, K, i, j)
            \/ (~CostLess(pts, K, j, i) /\ i <= j)

\* The priority process without the error limit.
RECURSIVE decimate_loop_unbounded(_, _, _, _, _)
decimate_loop_unbounded(pts, K, removed, target, error_sq_max) ==
    IF removed >= target \/ K \ {1, Len(pts)} = {}
    THEN K
    ELSE decimate_loop_unbounded(pts, K \ {Cheapest(pts, K)}, removed + 1, target,
                                 error_sq_max)

\* The priority process: remove the cheapest interior keyframe until the
\* target count is reached, none is left, or the cheapest exceeds the bound.
RECURSIVE decimate_loop(_, _, _, _, _)
decimate_loop(pts, K, removed, target, error_sq_max) ==
    IF removed >= target \/ K \ {1, Len(pts)} = {}
    THEN K
    ELSE LET i == Cheapest(pts, K)
         IN  IF CostNum(pts, K, i) > error_sq_max * CostDen(pts, K, i)
             THEN K
             ELSE decimate_loop(pts, K \ {i}, removed + 1, target, error_sq_max)

\* As many keyframes as K has, taken from the end of pts.
KeepSeq_tail(pts, K) ==
    [n \in 1..Cardinality(K) |-> pts[Len(pts) - Cardinality(K) + n]]
\* The keyframes of pts with index in K, in their original order.
KeepSeq(pts, K) ==
    [n \in 1..Cardinality(K) |->
        pts[CHOOSE k \in K : Cardinality({j \in K : j < k}) = n - 1]]

\* A target counted from the interior keyframes only.
RemoveTarget_interior(pts, remove_ratio) == (remove_ratio * (Len(pts) - 2)) \div One
\* A target that takes the ratio as the share to keep.
RemoveTarget_keep(pts, remove_ratio) == ((One - remove_ratio) * Len(pts)) \div One
\* Ratio mode stops at floor(remove_ratio * point count) removals.
RemoveTarget(pts, remove_ratio) == (remove_ratio * Len(pts)) \div One

\* decimate(curve, policy) on a keyframe array; both limits apply at once
\* (ratio mode passes FLT_MAX, error mode passes ratio 1.0).
decimate(pts, remove_ratio, error_sq_max) ==
    IF Len(pts) < 3 \/ remove_ratio = 0 \/ error_sq_max = 0
    THEN pts
    ELSE KeepSeq(pts, decimate_loop(pts, 1..Len(pts), 0,
                                    RemoveTarget(pts, remove_ratio), error_sq_max))

\* decimate_fcurve(ale, remove_ratio, error_sq_max): FALSE (and the curve
\* untouched) for a curve without keyframe data, else the reduced curve.
decimate_fcurve(fcu, remove_ratio, error_sq_max) ==
    IF ~fcu.has_bezt
    THEN [ok |-> FALSE, fcu |-> fcu]
    ELSE [ok |-> TRUE, fcu |-> FCurveBezt(decimate(fcu.bezt, remove_ratio, error_sq_max))]

(* ------------------------------- state -------------------------------- *)

\* The four out-parameters of get_graph_keyframe_extents before any call.
NoExtents == [want |-> {}, xmin |-> 0, xmax |-> 0, ymin |-> 0, ymax |-> 0]

VARIABLES
    fcurves,        \* curve id -> F-Curve: the animation data
    filtered,       \* what ANIM_animdata_filter returns: a list of curve ids
    customdata,     \* op->customdata != NULL: a tDecimateGraphOp is allocated
    area_set,       \* dgo->area != NULL
    bezt_arr_list,  \* dgo->bezt_arr_list: the list of tBeztCopyData
    num,            \* dgo->num: the NumInput
    op_remove_ratio, \* the operator's "remove_ratio" property
    op_mode,        \* the "mode" property the interactive operator was called with
    op_remove_error_margin, \* its "remove_error_margin" property
    modal_handler,  \* the window manager holds the operator's modal handler
    cursor_modal,   \* the window shows the modal cursor
    status_text,    \* the area's status text
    ret,            \* what the last operator callback returned
    notifiers,      \* WM_event_add_notifier calls of the last callback
    reports,        \* WM_report calls of the last callback, in order
    calls,          \* the decimate_fcurve calls of the last callback, in order
    updated_ales,   \* curve ids flagged ANIM_UPDATE_DEFAULT by the last callback
    frees,          \* MEM_freeN(dgo) calls of the last callback
    freed_read,     \* the last callback read the session data after freeing it
    null_deref,     \* a callback read through a NULL link: the process has crashed
    extents,        \* *xmin, *xmax, *ymin, *ymax as get_graph_keyframe_extents left them
    last,           \* history: the last callback and the event it handled
    pre,            \* history: fcurves as they were when the session started
    n_updates       \* history: updates run in the latest session, counted up to MaxCounted

progvars == <<fcurves, filtered, customdata, area_set, bezt_arr_list, num, op_remove_ratio,
              modal_handler, cursor_modal, status_text, ret, notifiers, reports, calls,
              updated_ales, frees, freed_read, null_deref, op_mode,
              op_remove_error_margin, extents>>
vars == <<progvars, last, pre, n_updates>>

\* The program state as one record, so that each C function is an operator
\* from state to state.
Cur ==
    [fcurves |-> fcurves, filtered |-> filtered, customdata |-> customdata,
     area_set |-> area_set, bezt_arr_list |-> bezt_arr_list, num |-> num,
     remove_ratio |-> op_remove_ratio, modal_handler |-> modal_handler,
     cursor_modal |-> cursor_modal, status_text |-> status_text, ret |-> ret,
     notifiers |-> notifiers, reports |-> reports, calls |-> calls,
     updated_ales |-> updated_ales, frees |-> frees, freed_read |-> freed_read,
     null_deref |-> null_deref, mode |-> op_mode,
     remove_error_margin |-> op_remove_error_margin, extents |-> extents]

Becomes(s) ==
    /\ fcurves' = s.fcurves
    /\ filtered' = s.filtered
    /\ customdata' = s.customdata
    /\ area_set' = s.area_set
    /\ bezt_arr_list' = s.bezt_arr_list
    /\ num' = s.num
    /\ op_remove_ratio' = s.remove_ratio
    /\ op_mode' = s.mode
    /\ op_remove_error_margin' = s.remove_error_margin
    /\ modal_handler' = s.modal_handler
    /\ cursor_modal' = s.cursor_modal
    /\ status_text' = s.status_text
    /\ ret' = s.ret
    /\ notifiers' = s.notifiers
    /\ reports' = s.reports
    /\ calls' = s.calls
    /\ updated_ales' = s.updated_ales
    /\ frees' = s.frees
    /\ freed_read' = s.freed_read
    /\ null_deref' = s.null_deref
    /\ extents' = s.extents

\* A callback starts with nothing reported, notified, called or flagged.
Entry(s) ==
    [s EXCEPT !.notifiers = 0, !.reports = <<>>, !.calls = <<>>, !.updated_ales = {},
              !.frees = 0, !.freed_read = FALSE]

\* MEM_callocN: a NumInput of zero bytes.
NumInputZero == [edited |-> FALSE, val |-> 0]
STATUS_NULL == [kind |-> "NULL", v |-> 0]

(* ---------------------------- host services --------------------------- *)
(* Defined outside graph_edit.c; modelled from the design document.        *)

\* ANIM_animdata_filter with the decimate filter flags: the visible,
\* selected, editable curves, once each, in channel order.
ANIM_animdata_filter(s) == s.filtered

\* RNA_property_float_set on "remove_ratio": the value is clamped to the
\* property's hard range.
RNA_property_float_set(s, value) ==
    [s EXCEPT !.remove_ratio =
        IF value < remove_ratio_hardmin THEN remove_ratio_hardmin
        ELSE IF value > remove_ratio_hardmax THEN remove_ratio_hardmax
        ELSE value]

\* hasNumInput: numeric input has been engaged.
hasNumInput(n) == n.edited

\* handleNumInput: a key the numeric input accepts engages it (for the rest
\* of the session) and leaves the typed number, a percentage, in n->val.
handleNumInput(n, event) ==
    IF event.type = "NUMKEY"
    THEN [handled |-> TRUE, num |-> [edited |-> TRUE, val |-> event.typed * One]]
    ELSE [handled |-> FALSE, num |-> n]

\* applyNumInput: the typed number replaces *vec when numeric input is engaged.
applyNumInput(n, value) == IF hasNumInput(n) THEN n.val ELSE value

\* The window manager drops the modal handler of an operator whose callback
\* returned FINISHED or CANCELLED.
wm_handler_after(s) ==
    IF s.ret \in {OPERATOR_FINISHED, OPERATOR_CANCELLED}
    THEN [s EXCEPT !.modal_handler = FALSE]
    ELSE s

(* ------------------------- decimate_graph_keys ------------------------ *)

\* One call of decimate_fcurve: the curve and the policy it was given, and
\* the keyframe data of that curve when the call starts and when it returns.
Call(ale, remove_ratio, error_sq_max, before, after) ==
    [ale |-> ale, remove_ratio |-> remove_ratio, error_sq_max |-> error_sq_max,
     before |-> before, after |-> after]

\* The loop of decimate_graph_keys with a decimator that works on a copy of
\* the curve and whose result is dropped.
RECURSIVE decimate_graph_keys_loop_copy(_, _, _, _)
decimate_graph_keys_loop_copy(s, anim_data, remove_ratio, error_sq_max) ==
    IF anim_data = <<>>
    THEN s
    ELSE LET ale == Head(anim_data)
             r == decimate_fcurve(s.fcurves[ale], remove_ratio, error_sq_max)
         IN  decimate_graph_keys_loop_copy(
                 [s EXCEPT !.calls = Append(@, Call(ale, remove_ratio, error_sq_max,
                                                    s.fcurves[ale], s.fcurves[ale])),
                           !.reports = IF r.ok THEN @ ELSE Append(@, RPT_SKIPPING),
                           !.updated_ales = @ \cup {ale}],
                 Tail(anim_data), remove_ratio, error_sq_max)

\* The loop of decimate_graph_keys, stopping at the first rejected curve.
RECURSIVE decimate_graph_keys_loop_break(_, _, _, _)
decimate_graph_keys_loop_break(s, anim_data, remove_ratio, error_sq_max) ==
    IF anim_data = <<>>
    THEN s
    ELSE LET ale == Head(anim_data)
             r == decimate_fcurve(s.fcurves[ale], remove_ratio, error_sq_max)
         IN  IF ~r.ok
             THEN [s EXCEPT !.calls = Append(@, Call(ale, remove_ratio, error_sq_max,
                                                       s.fcurves[ale], r.fcu)),
                            !.reports = Append(@, RPT_SKIPPING)]
             ELSE decimate_graph_keys_loop_break(
                      [s EXCEPT !.fcurves[ale] = r.fcu,
                                !.calls = Append(@, Call(ale, remove_ratio, error_sq_max,
                                                       s.fcurves[ale], r.fcu)),
                                !.updated_ales = @ \cup {ale}],
                      Tail(anim_data), remove_ratio, error_sq_max)

\* for (ale = anim_data.first; ale; ale = ale->next): decimate the curve,
\* warn when it was rejected, flag it for update.
RECURSIVE decimate_graph_keys_loop(_, _, _, _)
decimate_graph_keys_loop(s, anim_data, remove_ratio, error_sq_max) ==
    IF anim_data = <<>>
    THEN s
    ELSE LET ale == Head(anim_data)
             r == decimate_fcurve(s.fcurves[ale], remove_ratio, error_sq_max)
         IN  decimate_graph_keys_loop(
                 [s EXCEPT !.fcurves[ale] = r.fcu,
                           !.calls = Append(@, Call(ale, remove_ratio, error_sq_max,
                                                       s.fcurves[ale], r.fcu)),
                           !.reports = IF r.ok THEN @ ELSE Append(@, RPT_SKIPPING),
                           !.updated_ales = @ \cup {ale}],
                 Tail(anim_data), remove_ratio, error_sq_max)

decimate_graph_keys(s, remove_ratio, error_sq_max) ==
    decimate_graph_keys_loop(s, ANIM_animdata_filter(s), remove_ratio, error_sq_max)

(* ------------------------- the modal session -------------------------- *)

\* The loop of decimate_reset_bezts; link is the position in bezt_arr_list.
RECURSIVE decimate_reset_bezts_loop(_, _, _)
decimate_reset_bezts_loop(s, anim_data, link) ==
    IF anim_data = <<>>
    THEN s
    ELSE LET ale == Head(anim_data)
             fcu == s.fcurves[ale]
         IN  IF ~fcu.has_bezt
             THEN decimate_reset_bezts_loop(s, Tail(anim_data), link)
             ELSE IF link > Len(s.bezt_arr_list)
             THEN [s EXCEPT !.null_deref = TRUE]
             ELSE LET data == s.bezt_arr_list[link]
                  IN  decimate_reset_bezts_loop(
                          [s EXCEPT !.fcurves[ale] =
                              FCurveBezt(SubSeq(data.bezt, 1, data.tot_vert))],
                          Tail(anim_data), link + 1)

\* Overwrite the current bezts arrays with the original data.  The copies
\* are read through op->customdata: with the session data freed there is
\* nothing to read, and the read is recorded as a fault.
decimate_reset_bezts(s) ==
    IF ~s.customdata
    THEN [s EXCEPT !.freed_read = TRUE]
    ELSE decimate_reset_bezts_loop(s, ANIM_animdata_filter(s), 1)

\* decimate_exit that leaves op->customdata pointing at the freed data.
decimate_exit_dangling(s) ==
    IF ~s.customdata
    THEN s
    ELSE [s EXCEPT !.bezt_arr_list = <<>>,
                   !.num = NumInputZero,
                   !.cursor_modal = FALSE,
                   !.frees = @ + 1,
                   !.status_text = IF s.area_set THEN STATUS_NULL ELSE @]

\* decimate_exit that frees but leaves the cursor and the header as they are.
decimate_exit_norestore(s) ==
    IF ~s.customdata
    THEN s
    ELSE [s EXCEPT !.bezt_arr_list = <<>>,
                   !.num = NumInputZero,
                   !.area_set = FALSE,
                   !.frees = @ + 1,
                   !.customdata = FALSE]

\* Free the copies, the list and the session data; restore cursor and header.
decimate_exit(s) ==
    IF ~s.customdata
    THEN s
    ELSE [s EXCEPT !.bezt_arr_list = <<>>,
                   !.num = NumInputZero,
                   !.area_set = FALSE,
                   !.cursor_modal = FALSE,
                   !.status_text = IF s.area_set THEN STATUS_NULL ELSE @,
                   !.frees = @ + 1,
                   !.customdata = FALSE]

\* Draw a percentage indicator in header.
decimate_draw_status_header(s) ==
    [s EXCEPT !.status_text =
        IF hasNumInput(s.num)
        THEN [kind |-> "num", v |-> s.num.val]
        ELSE [kind |-> "pct", v |-> (s.remove_ratio * 100) \div One]]

\* percentage = (event->x - winrct.xmin) / (float)winx, stored unclamped.
decimate_mouse_update_percentage_raw(s, event) ==
    [s EXCEPT !.remove_ratio = ((event.x - winrct_xmin) * One) \div winx]

\* percentage = (event->x - winrct.xmin) / (float)winx, stored in the property.
decimate_mouse_update_percentage(s, event) ==
    RNA_property_float_set(s, ((event.x - winrct_xmin) * One) \div winx)

\* The copy loop of graphkeys_decimate_invoke: one tBeztCopyData per curve
\* with keyframe data, appended in filter order.
RECURSIVE invoke_copy_loop(_, _)
invoke_copy_loop(s, anim_data) ==
    IF anim_data = <<>>
    THEN s
    ELSE LET fcu == s.fcurves[Head(anim_data)]
         IN  IF ~fcu.has_bezt
             THEN invoke_copy_loop(s, Tail(anim_data))
             ELSE invoke_copy_loop(
                      [s EXCEPT !.bezt_arr_list =
                          Append(@, [tot_vert |-> Len(fcu.bezt), bezt |-> fcu.bezt])],
                      Tail(anim_data))

\* graphkeys_decimate_invoke without the test for an empty list of copies.
graphkeys_decimate_invoke_noempty(s0, event, context_ok) ==
    LET s1 == [Entry(s0) EXCEPT !.cursor_modal = TRUE,
                                !.customdata = TRUE,
                                !.area_set = FALSE,
                                !.bezt_arr_list = <<>>,
                                !.num = NumInputZero]
    IN  IF ~context_ok
        THEN [decimate_exit(s1) EXCEPT !.ret = OPERATOR_CANCELLED]
        ELSE LET s2 == [s1 EXCEPT !.area_set = TRUE]
                 s3 == decimate_mouse_update_percentage(s2, event)
                 s4 == decimate_draw_status_header(s3)
                 s5 == invoke_copy_loop(s4, ANIM_animdata_filter(s4))
             IN  [s5 EXCEPT !.modal_handler = TRUE,
                            !.ret = OPERATOR_RUNNING_MODAL]

graphkeys_decimate_invoke(s0, event, context_ok) ==
    LET s1 == [Entry(s0) EXCEPT !.cursor_modal = TRUE,
                                !.customdata = TRUE,
                                !.area_set = FALSE,
                                !.bezt_arr_list = <<>>,
                                !.num = NumInputZero]
    IN  IF ~context_ok
        THEN [decimate_exit(s1) EXCEPT !.ret = OPERATOR_CANCELLED]
        ELSE LET s2 == [s1 EXCEPT !.area_set = TRUE]
                 s3 == decimate_mouse_update_percentage(s2, event)
                 s4 == decimate_draw_status_header(s3)
                 s5 == invoke_copy_loop(s4, ANIM_animdata_filter(s4))
             IN  IF s5.bezt_arr_list = <<>>
                 THEN [decimate_exit([s5 EXCEPT !.reports = Append(@, RPT_BAKED)])
                          EXCEPT !.ret = OPERATOR_CANCELLED]
                 ELSE [s5 EXCEPT !.modal_handler = TRUE,
                                 !.ret = OPERATOR_RUNNING_MODAL]

\* graphkeys_decimate_modal_update without the reset to the original data.
graphkeys_decimate_modal_update_noreset(s) ==
    LET s1 == decimate_draw_status_header(s)
        s3 == decimate_graph_keys(s1, s1.remove_ratio, FLT_MAX)
    IN  [s3 EXCEPT !.notifiers = @ + 1]

\* graphkeys_decimate_modal_update that takes a fresh copy of the result.
graphkeys_decimate_modal_update_recopy(s) ==
    LET s1 == decimate_draw_status_header(s)
        s2 == decimate_reset_bezts(s1)
        s3 == decimate_graph_keys(s2, s2.remove_ratio, FLT_MAX)
        s4 == invoke_copy_loop([s3 EXCEPT !.bezt_arr_list = <<>>], ANIM_animdata_filter(s3))
    IN  [s4 EXCEPT !.notifiers = @ + 1]

\* The update without the header draw.
graphkeys_decimate_modal_update_nodraw(s) ==
    LET s2 == decimate_reset_bezts(s)
        s3 == decimate_graph_keys(s2, s2.remove_ratio, FLT_MAX)
    IN  [s3 EXCEPT !.notifiers = @ + 1]

\* The update that follows the "mode" property as graphkeys_decimate_exec
\* does.
graphkeys_decimate_modal_update_bymode(s) ==
    LET s1 == decimate_draw_status_header(s)
        s2 == decimate_reset_bezts(s1)
        s3 == IF s2.mode = DECIM_ERROR
              THEN decimate_graph_keys(s2, One,
                                       s2.remove_error_margin * s2.remove_error_margin)
              ELSE decimate_graph_keys(s2, s2.remove_ratio, FLT_MAX)
    IN  [s3 EXCEPT !.notifiers = @ + 1]

\* Draw the header, reset the keyframe data, decimate by the stored ratio
\* without an error limit, notify.
graphkeys_decimate_modal_update(s) ==
    LET s1 == decimate_draw_status_header(s)
        s2 == decimate_reset_bezts(s1)
        s3 == decimate_graph_keys(s2, s2.remove_ratio, FLT_MAX)
    IN  [s3 EXCEPT !.notifiers = @ + 1]

(* ----------------------- graphkeys_decimate_modal --------------------- *)

KM_PRESS == "KM_PRESS"
KM_RELEASE == "KM_RELEASE"
KM_NOTHING == "KM_NOTHING"
ConfirmTypes == {"LEFTMOUSE", "EVT_RETKEY", "EVT_PADENTER"}
CancelTypes == {"EVT_ESCKEY", "RIGHTMOUSE"}

\* The confirm case without the test of event->val.
modal_confirm_any_val(s, event) ==
    [decimate_exit(s) EXCEPT !.ret = OPERATOR_FINISHED]

\* The confirm case that puts the original data back before it ends.
modal_confirm_restore(s, event) ==
    IF event.val = KM_PRESS
    THEN [decimate_exit(decimate_reset_bezts(s)) EXCEPT !.ret = OPERATOR_FINISHED]
    ELSE [s EXCEPT !.ret = OPERATOR_RUNNING_MODAL]

\* case LEFTMOUSE, EVT_RETKEY, EVT_PADENTER.
modal_confirm(s, event) ==
    IF event.val = KM_PRESS
    THEN [decimate_exit(s) EXCEPT !.ret = OPERATOR_FINISHED]
    ELSE [s EXCEPT !.ret = OPERATOR_RUNNING_MODAL]

\* The cancel case without the restore of the original data.
modal_cancel_norestore(s, event) ==
    IF event.val = KM_PRESS
    THEN [decimate_exit([s EXCEPT !.notifiers = @ + 1]) EXCEPT !.ret = OPERATOR_CANCELLED]
    ELSE [s EXCEPT !.ret = OPERATOR_RUNNING_MODAL]

\* The cancel case without the notifier.
modal_cancel_nonotify(s, event) ==
    IF event.val = KM_PRESS
    THEN [decimate_exit(decimate_reset_bezts(s)) EXCEPT !.ret = OPERATOR_CANCELLED]
    ELSE [s EXCEPT !.ret = OPERATOR_RUNNING_MODAL]

\* The cancel case that frees the session data before it restores.
modal_cancel_exit_first(s, event) ==
    IF event.val = KM_PRESS
    THEN LET s1 == decimate_exit(s)
             s2 == [decimate_reset_bezts(s1) EXCEPT !.notifiers = @ + 1]
         IN  [s2 EXCEPT !.ret = OPERATOR_CANCELLED]
    ELSE [s EXCEPT !.ret = OPERATOR_RUNNING_MODAL]

\* case EVT_ESCKEY, RIGHTMOUSE.
modal_cancel(s, event) ==
    IF event.val = KM_PRESS
    THEN LET s1 == decimate_reset_bezts(s)
             s2 == [s1 EXCEPT !.notifiers = @ + 1]
         IN  [decimate_exit(s2) EXCEPT !.ret = OPERATOR_CANCELLED]
    ELSE [s EXCEPT !.ret = OPERATOR_RUNNING_MODAL]

\* The pointer-move case without the test of has_numinput.
modal_mousemove_always(s, event) ==
    [graphkeys_decimate_modal_update(decimate_mouse_update_percentage(s, event))
        EXCEPT !.ret = OPERATOR_RUNNING_MODAL]

\* case MOUSEMOVE.
modal_mousemove(s, event) ==
    IF hasNumInput(s.num) = FALSE
    THEN [graphkeys_decimate_modal_update(decimate_mouse_update_percentage(s, event))
             EXCEPT !.ret = OPERATOR_RUNNING_MODAL]
    ELSE [s EXCEPT !.ret = OPERATOR_RUNNING_MODAL]

\* The default case that runs the update for every event it gets and leaves
\* the switch.
modal_default_fallthrough(s, event) ==
    LET h == handleNumInput(s.num, event)
        s1 == IF event.val = KM_PRESS /\ h.handled THEN [s EXCEPT !.num = h.num] ELSE s
        value == applyNumInput(s1.num, s1.remove_ratio * 100)
        s2 == RNA_property_float_set(s1, value \div 100)
    IN  [graphkeys_decimate_modal_update(s2) EXCEPT !.ret = OPERATOR_RUNNING_MODAL]

\* default: numeric input when the key is pressed and accepted, else the
\* event is passed through.
modal_default(s, event) ==
    LET h == handleNumInput(s.num, event)
    IN  IF event.val = KM_PRESS /\ h.handled
        THEN LET s1 == [s EXCEPT !.num = h.num]
                 value == applyNumInput(s1.num, s1.remove_ratio * 100)
                 s2 == RNA_property_float_set(s1, value \div 100)
             IN  [graphkeys_decimate_modal_update(s2) EXCEPT !.ret = OPERATOR_RUNNING_MODAL]
        ELSE [s EXCEPT !.ret = OPERATOR_PASS_THROUGH]

graphkeys_decimate_modal(s0, event) ==
    LET s == Entry(s0)
    IN  CASE event.type \in ConfirmTypes -> modal_confirm(s, event)
          [] event.type \in CancelTypes -> modal_cancel(s, event)
          [] event.type = "MOUSEMOVE" -> modal_mousemove(s, event)
          [] OTHER -> modal_default(s, event)

(* ----------------------- graphkeys_decimate_exec ---------------------- *)

\* graphkeys_decimate_exec that passes the error margin as it is, not squared.
graphkeys_decimate_exec_nosquare(s0, context_ok, mode, remove_error_margin) ==
    LET s == Entry(s0)
        remove_ratio == IF mode = DECIM_RATIO THEN s.remove_ratio ELSE One
        error_sq_max == IF mode = DECIM_ERROR THEN remove_error_margin ELSE FLT_MAX
    IN  IF ~context_ok
        THEN [s EXCEPT !.ret = OPERATOR_CANCELLED]
        ELSE IF remove_ratio = 0 \/ error_sq_max = 0
        THEN [s EXCEPT !.ret = OPERATOR_FINISHED]
        ELSE [decimate_graph_keys(s, remove_ratio, error_sq_max)
                 EXCEPT !.notifiers = @ + 1, !.ret = OPERATOR_FINISHED]

\* graphkeys_decimate_exec without the "nothing to remove" return.
graphkeys_decimate_exec_noearly(s0, context_ok, mode, remove_error_margin) ==
    LET s == Entry(s0)
        remove_ratio == IF mode = DECIM_RATIO THEN s.remove_ratio ELSE One
        error_sq_max == IF mode = DECIM_ERROR
                        THEN remove_error_margin * remove_error_margin
                        ELSE FLT_MAX
    IN  IF ~context_ok
        THEN [s EXCEPT !.ret = OPERATOR_CANCELLED]
        ELSE [decimate_graph_keys(s, remove_ratio, error_sq_max)
                 EXCEPT !.notifiers = @ + 1, !.ret = OPERATOR_FINISHED]

graphkeys_decimate_exec(s0, context_ok, mode, remove_error_margin) ==
    LET s == Entry(s0)
        remove_ratio == IF mode = DECIM_RATIO THEN s.remove_ratio ELSE One
        error_sq_max == IF mode = DECIM_ERROR
                        THEN remove_error_margin * remove_error_margin
                        ELSE FLT_MAX
    IN  IF ~context_ok
        THEN [s EXCEPT !.ret = OPERATOR_CANCELLED]
        ELSE IF remove_ratio = 0 \/ error_sq_max = 0
        THEN [s EXCEPT !.ret = OPERATOR_FINISHED]
        ELSE [decimate_graph_keys(s, remove_ratio, error_sq_max)
                 EXCEPT !.notifiers = @ + 1, !.ret = OPERATOR_FINISHED]

(* ------------------------------- inputs ------------------------------- *)

\* Pointer positions: from Overshoot pixels left of the region to Overshoot
\* pixels right of it.
EventXs == (winrct_xmin - Overshoot)..(winrct_xmin + winx + Overshoot)
\* Numbers the user may type (percentages), inside and outside 0..100.
TypedValues == {-50, 40, 150}
\* Values of the "remove_ratio" and "remove_error_margin" properties.
ExecRatios == {0, One \div 2, One}
ExecMargins == {0, 2}

\* The inputs of an interactive start: the pointer position, and whether
\* ANIM_animdata_get_context succeeds (the pointer is not read when it fails).
InvokeInputs ==
    {[x |-> x, context_ok |-> TRUE] : x \in EventXs}
    \cup {[x |-> winrct_xmin, context_ok |-> FALSE]}
\* The inputs of a non-interactive run: the context and the three properties
\* (none of them is read when the context is missing).
ExecInputs ==
    {[context_ok |-> TRUE, mode |-> mode, remove_ratio |-> r, remove_error_margin |-> m] :
        mode \in {DECIM_RATIO, DECIM_ERROR}, r \in ExecRatios, m \in ExecMargins}
    \cup {[context_ok |-> FALSE, mode |-> DECIM_RATIO, remove_ratio |-> remove_ratio_default,
           remove_error_margin |-> 0]}

Event(type, val, x, typed) == [type |-> type, val |-> val, x |-> x, typed |-> typed]
ModalEvents ==
    {Event(t, v, winrct_xmin, 0) : t \in ConfirmTypes \cup CancelTypes \cup {"OTHER"},
                                   v \in {KM_PRESS, KM_RELEASE}}
    \cup {Event("MOUSEMOVE", KM_NOTHING, x, 0) : x \in EventXs}
    \cup {Event("NUMKEY", KM_PRESS, winrct_xmin, n) : n \in TypedValues}
    \cup {Event("NUMKEY", KM_RELEASE, winrct_xmin, 0)}

NoEvent == Event("NONE", KM_NOTHING, winrct_xmin, 0)
\* The event that starts the operator interactively, with the pointer at x.
InvokeEvent(x) == Event("LEFTMOUSE", KM_PRESS, x, 0)
Last(op, event, context_ok) ==
    [op |-> op, event |-> event, context_ok |-> context_ok,
     mode |-> 0, remove_error_margin |-> 0]
\* A non-interactive run also records the properties it was given.
LastExec(in) ==
    [Last("exec", NoEvent, in.context_ok)
        EXCEPT !.mode = in.mode, !.remove_error_margin = in.remove_error_margin]

\* Every prefix of the channel list can be the filtered selection.
AllCurves == [i \in 1..NumCurves |-> i]
Selections == {SubSeq(AllCurves, 1, n) : n \in 0..NumCurves}

(* ------------------------------ behaviour ----------------------------- *)

Init ==
    /\ fcurves \in [1..NumCurves -> SampleCurves]
    /\ filtered \in Selections
    /\ customdata = FALSE
    /\ area_set = FALSE
    /\ bezt_arr_list = <<>>
    /\ num = NumInputZero
    /\ op_remove_ratio = remove_ratio_default
    /\ op_mode = DECIM_RATIO
    /\ op_remove_error_margin = 0
    /\ modal_handler = FALSE
    /\ cursor_modal = FALSE
    /\ status_text = STATUS_NULL
    /\ ret = "NONE"
    /\ notifiers = 0
    /\ reports = <<>>
    /\ calls = <<>>
    /\ updated_ales = {}
    /\ frees = 0
    /\ freed_read = FALSE
    /\ null_deref = FALSE
    /\ extents = NoExtents
    /\ last = Last("none", NoEvent, TRUE)
    /\ pre = fcurves
    /\ n_updates = 0

\* The user starts the operator interactively: graphkeys_decimate_invoke.
Invoke ==
    /\ ~modal_handler
    /\ \E in \in InvokeInputs :
        \E s \in {wm_handler_after(graphkeys_decimate_invoke(Cur, InvokeEvent(in.x), in.context_ok))} :
            /\ Becomes(s)
            /\ last' = Last("invoke", InvokeEvent(in.x), in.context_ok)
    /\ pre' = fcurves
    /\ n_updates' = 0

\* The window manager hands an event to the modal handler.
Modal ==
    /\ modal_handler
    /\ \E event \in ModalEvents :
        \E s \in {wm_handler_after(graphkeys_decimate_modal(Cur, event))} :
            /\ Becomes(s)
            /\ last' = Last("modal", event, TRUE)
            /\ n_updates' = IF s.calls # <<>> /\ n_updates < MaxCounted
                            THEN n_updates + 1 ELSE n_updates
    /\ pre' = pre

\* The operator runs non-interactively with its properties set by the
\* caller: graphkeys_decimate_exec.
Exec ==
    /\ ~modal_handler
    /\ \E in \in ExecInputs :
        \E s \in {graphkeys_decimate_exec(RNA_property_float_set(Cur, in.remove_ratio),
                                           in.context_ok, in.mode, in.remove_error_margin)} :
            /\ Becomes(s)
            /\ last' = LastExec(in)
    /\ pre' = fcurves
    /\ n_updates' = 0

Next == Invoke \/ Modal \/ Exec

Spec == Init /\ [][Next]_vars

TypeOK ==
    /\ \A c \in 1..NumCurves : fcurves[c].has_bezt => Sorted(fcurves[c].bezt)
    /\ customdata \in BOOLEAN
    /\ modal_handler \in BOOLEAN

(* ------------------------------ properties ---------------------------- *)

Active == modal_handler
ConfirmPress(l) ==
    l.op = "modal" /\ l.event.type \in ConfirmTypes /\ l.event.val = KM_PRESS
CancelPress(l) ==
    l.op = "modal" /\ l.event.type \in CancelTypes /\ l.event.val = KM_PRESS

\* The list of copies graphkeys_decimate_invoke makes of the curves fc.
SnapshotOf(fc) ==
    invoke_copy_loop([Cur EXCEPT !.fcurves = fc, !.bezt_arr_list = <<>>],
                     filtered).bezt_arr_list

\* The session as it was right after start, with the parameter and the
\* numeric input as they are now.
StartState == [Cur EXCEPT !.fcurves = pre, !.bezt_arr_list = SnapshotOf(pre)]

\* C1: path independence.  In an Active session in which at least one
\* update has run, the live curves are the curves a single update with the
\* currently stored parameter gives when applied right after start.
C1_PathIndependence ==
    (Active /\ n_updates >= 1)
        => fcurves = graphkeys_decimate_modal_update(StartState).fcurves

\* Two or more updates have run and a live curve is reduced but still has
\* interior keyframes, which decimating the live curve again would remove.
C1_Witness ==
    /\ Active
    /\ n_updates >= 2
    /\ \E c \in 1..NumCurves :
        /\ fcurves[c].has_bezt
        /\ fcurves[c] # pre[c]
        /\ Len(fcurves[c].bezt) >= 3

\* C2: cancel restores exactly.  After a cancel press every curve is what
\* it was immediately before start.
C2_CancelRestores == CancelPress(last) => fcurves = pre

\* A session was cancelled after an update had removed keyframes at a
\* ratio of at least one half.
C2_Witness ==
    /\ CancelPress(last)
    /\ ret = OPERATOR_CANCELLED
    /\ n_updates >= 1
    /\ op_remove_ratio >= One \div 2
    /\ \E i \in 1..Len(filtered) : pre[filtered[i]].has_bezt

\* C3: snapshot immutability.  While the session is Active the list of
\* copies is the copy of the curves as they were at start.
C3_SnapshotImmutable == Active => bezt_arr_list = SnapshotOf(pre)

\* The session is Active after pointer updates, numeric entry and a
\* passed-through event, with the live curves changed.
C3_Witness ==
    /\ Active
    /\ n_updates >= 2
    /\ hasNumInput(num)
    /\ last.event.type = "OTHER"
    /\ fcurves # pre

\* C4: the session state machine.  Active is entered only by an invoke
\* that returns RUNNING_MODAL; it is left only by a confirm press (FINISHED)
\* or a cancel press (CANCELLED), and each of those leaves it; the session
\* data exists exactly while the session is Active; the modal callback never
\* runs on a session that is not Active.
C4_StateMachine ==
    [][/\ (~Active /\ Active') => (last'.op = "invoke" /\ ret' = OPERATOR_RUNNING_MODAL)
       /\ (Active /\ ~Active') =>
            \/ (ConfirmPress(last') /\ ret' = OPERATOR_FINISHED)
            \/ (CancelPress(last') /\ ret' = OPERATOR_CANCELLED)
       /\ (Active /\ (ConfirmPress(last') \/ CancelPress(last'))) => ~Active'
       /\ Active' <=> customdata'
       /\ ~Active => last'.op # "modal"
      ]_vars

\* The release of a confirm key was handled and the session is still Active.
C4_Witness ==
    /\ Active
    /\ customdata
    /\ last.op = "modal"
    /\ last.event.type \in ConfirmTypes
    /\ last.event.val = KM_RELEASE

NoEligibleCurve == \A i \in 1..Len(filtered) : ~pre[filtered[i]].has_bezt

\* C5: start with no eligible curve.  When the context is found and no
\* filtered curve has keyframe data, invoke reports the warning, returns
\* CANCELLED, registers no handler, frees the session data and leaves the
\* curves as they were.
C5_StartNoEligible ==
    (last.op = "invoke" /\ last.context_ok /\ NoEligibleCurve)
        => /\ reports = <<RPT_BAKED>>
           /\ ret = OPERATOR_CANCELLED
           /\ ~modal_handler
           /\ ~customdata
           /\ bezt_arr_list = <<>>
           /\ fcurves = pre

\* Invoke ran on a selection made of baked curves only.
C5_Witness ==
    /\ last.op = "invoke"
    /\ last.context_ok
    /\ Len(filtered) > 0
    /\ NoEligibleCurve
    /\ ret = OPERATOR_CANCELLED

\* C6: commit keeps the applied result.  A confirm press in Active leaves
\* every curve as it was before the event, frees the copies and the session
\* data and returns FINISHED.
C6_CommitKeeps ==
    [][(Active /\ ConfirmPress(last'))
        => /\ fcurves' = fcurves
           /\ bezt_arr_list' = <<>>
           /\ ~customdata'
           /\ ret' = OPERATOR_FINISHED]_vars

\* A session was committed with decimated curves.
C6_Witness ==
    /\ ConfirmPress(last)
    /\ ret = OPERATOR_FINISHED
    /\ n_updates >= 1
    /\ fcurves # pre

\* C7 as claimed: handling a confirm press or a cancel press issues a
\* data-change notification.
C7_BothNotify == (ConfirmPress(last) \/ CancelPress(last)) => notifiers >= 1

\* C7, amended: handling a cancel press issues exactly one data-change
\* notification; handling a confirm press issues none.
C7_CancelNotifies ==
    /\ CancelPress(last) => notifiers = 1
    /\ ConfirmPress(last) => notifiers = 0

\* A session was cancelled and the notification issued.
C7_Witness == CancelPress(last) /\ ret = OPERATOR_CANCELLED /\ notifiers = 1

\* C8: parameter clamping.  The stored remove ratio, and the ratio of every
\* decimate_fcurve call, lies in [0, 1].
C8_RatioClamped ==
    /\ 0 <= op_remove_ratio /\ op_remove_ratio <= One
    /\ \A i \in 1..Len(calls) :
        0 <= calls[i].remove_ratio /\ calls[i].remove_ratio <= One

\* An update ran with the pointer right of the region's right edge, or with
\* a typed number above 100.
C8_Witness ==
    /\ Active
    /\ calls # <<>>
    /\ \/ last.event.type = "MOUSEMOVE" /\ last.event.x > winrct_xmin + winx
       \/ last.event.type = "NUMKEY" /\ last.event.typed > 100

\* The ratio the pointer position of event gives, unclamped.
PointerRatio(event) == ((event.x - winrct_xmin) * One) \div winx

\* C9: numeric entry takes precedence.  Once numeric input is engaged in an
\* Active session it stays engaged while the session lasts, and a pointer
\* move changes neither the stored ratio nor the curves and calls the
\* decimator on nothing.
C9_NumericPrecedence ==
    [][/\ (Active /\ hasNumInput(num) /\ Active') => hasNumInput(num')
       /\ (Active /\ hasNumInput(num)
             /\ last'.op = "modal" /\ last'.event.type = "MOUSEMOVE")
            => /\ op_remove_ratio' = op_remove_ratio
               /\ fcurves' = fcurves
               /\ calls' = <<>>
               /\ Active'
      ]_vars

\* A pointer move was handled with numeric input engaged, at a position
\* that gives another ratio than the stored one.
C9_Witness ==
    /\ Active
    /\ hasNumInput(num)
    /\ last.event.type = "MOUSEMOVE"
    /\ PointerRatio(last.event) \in 0..One
    /\ PointerRatio(last.event) # op_remove_ratio

\* The last callback ran decimate_graph_keys: a non-interactive run that
\* got past its early returns, or an update of the session.
BatchRan ==
    \/ last.op = "exec" /\ notifiers = 1
    \/ last.op = "modal" /\ Active /\ notifiers = 1

\* C10: batch decimation never aborts.  A batch calls the decimator on every
\* filtered curve in list order, leaves every curve with keyframe data
\* decimated by the policy of its call, and issues as many skip reports as
\* there are rejected curves.
C10_BatchNeverAborts ==
    BatchRan =>
        /\ Len(calls) = Len(filtered)
        /\ \A i \in 1..Len(filtered) :
            /\ calls[i].ale = filtered[i]
            /\ pre[filtered[i]].has_bezt =>
                fcurves[filtered[i]] =
                    FCurveBezt(decimate(pre[filtered[i]].bezt,
                                        calls[i].remove_ratio, calls[i].error_sq_max))
        /\ Len(reports) = Cardinality({i \in 1..Len(filtered) : ~pre[filtered[i]].has_bezt})
        /\ \A i \in 1..Len(reports) : reports[i] = RPT_SKIPPING

\* A non-interactive batch met a rejected curve first and decimated the
\* curve after it.
C10_Witness ==
    /\ last.op = "exec"
    /\ BatchRan
    /\ Len(filtered) >= 2
    /\ ~pre[filtered[1]].has_bezt
    /\ pre[filtered[2]].has_bezt
    /\ fcurves[filtered[2]] # pre[filtered[2]]
    /\ Len(reports) = 1


\* The filtered curves the decimator rejects in a batch over the curves pre.
RejectedCount == Cardinality({i \in 1..Len(filtered) : ~pre[filtered[i]].has_bezt})

\* C11 as claimed: a batch with at least one rejected curve issues exactly
\* one warning, and a batch with none issues no warning.
C11_OneWarningPerBatch ==
    BatchRan => Len(reports) = (IF RejectedCount >= 1 THEN 1 ELSE 0)


(* ------------------- the decimator applied in batches ------------------ *)

\* The straight line of the concrete scenario: times 0..4, values equal to
\* the times.
ScenarioLine == Line(5)
\* A curve that goes up and down between every two keyframes.
Zigzag ==
    <<BezTriple(0, 0), BezTriple(1, 2), BezTriple(2, 0), BezTriple(3, 2), BezTriple(4, 0)>>

\* Curves given to the decimator: without keyframe data, straight lines of
\* every length up to MaxLen, the scenario line, and two crooked curves.
BatchCurves ==
    {FCurveBaked} \cup {FCurveBezt(Line(n)) : n \in 1..MaxLen}
    \cup {FCurveBezt(ScenarioLine), FCurveBezt(Bump), FCurveBezt(Zigzag)}

\* Policies: ratio mode passes the ratio and no error limit, error mode
\* passes ratio 1.0 and the squared error limit.
BatchRatios == {0, One \div 4, One \div 2, (3 * One) \div 4, One}
BatchErrors == {0, 1, 4}
Policies ==
    {[remove_ratio |-> r, error_sq_max |-> FLT_MAX] : r \in BatchRatios}
    \cup {[remove_ratio |-> One, error_sq_max |-> E] : E \in BatchErrors}

InitBatch ==
    /\ fcurves \in [1..NumCurves -> BatchCurves]
    /\ filtered = AllCurves
    /\ customdata = FALSE
    /\ area_set = FALSE
    /\ bezt_arr_list = <<>>
    /\ num = NumInputZero
    /\ op_remove_ratio = remove_ratio_default
    /\ op_mode = DECIM_RATIO
    /\ op_remove_error_margin = 0
    /\ modal_handler = FALSE
    /\ cursor_modal = FALSE
    /\ status_text = STATUS_NULL
    /\ ret = "NONE"
    /\ notifiers = 0
    /\ reports = <<>>
    /\ calls = <<>>
    /\ updated_ales = {}
    /\ frees = 0
    /\ freed_read = FALSE
    /\ null_deref = FALSE
    /\ extents = NoExtents
    /\ last = Last("none", NoEvent, TRUE)
    /\ pre = fcurves
    /\ n_updates = 0

\* decimate_graph_keys called with a policy on every curve.
DecimateBatch ==
    /\ \E policy \in Policies :
        \E s \in {decimate_graph_keys(Entry(Cur), policy.remove_ratio, policy.error_sq_max)} :
            /\ Becomes(s)
            /\ last' = Last("batch", NoEvent, TRUE)
    /\ pre' = fcurves
    /\ n_updates' = 0

NextBatch == DecimateBatch \/ Exec

SpecBatch == InitBatch /\ [][NextBatch]_vars

\* The last step was a batch of the decimator.
BatchStep == last.op = "batch" /\ Len(calls) = NumCurves
\* The policy of the last batch.
Policy == [remove_ratio |-> calls[1].remove_ratio, error_sq_max |-> calls[1].error_sq_max]
\* The last step was a non-interactive run that found its context.
ExecStep == last.op = "exec" /\ last.context_ok

\* C12: decimation at zero strength is a no-op.  A batch with ratio 0 or
\* error limit 0 leaves every curve as it was, and so does the same batch
\* applied once more; a non-interactive run in ratio mode with ratio 0, or in
\* error mode with margin 0, returns FINISHED at once: no decimator call, no
\* notifier, no curve changed.
C12_NoOpAtZero ==
    /\ (BatchStep /\ (Policy.remove_ratio = 0 \/ Policy.error_sq_max = 0)) =>
        /\ fcurves = pre
        /\ decimate_graph_keys(Entry(Cur), Policy.remove_ratio, Policy.error_sq_max).fcurves
               = fcurves
    /\ (ExecStep /\ \/ (last.mode = DECIM_RATIO /\ op_remove_ratio = 0)
                    \/ (last.mode = DECIM_ERROR /\ last.remove_error_margin = 0)) =>
        /\ ret = OPERATOR_FINISHED
        /\ fcurves = pre
        /\ calls = <<>>
        /\ notifiers = 0

\* A run in error mode with margin 0 over curves a nonzero policy would
\* reduce.
C12_Witness ==
    /\ ExecStep
    /\ last.mode = DECIM_ERROR
    /\ last.remove_error_margin = 0
    /\ ret = OPERATOR_FINISHED
    /\ \E c \in 1..NumCurves :
        fcurves[c].has_bezt /\ decimate(fcurves[c].bezt, One, 1) # fcurves[c].bezt


\* The curves of the last batch that have keyframe data.
Decimated == {c \in 1..NumCurves : pre[c].has_bezt}
\* out is made of keyframes of in, unmodified and in their original order
\* (the times of in are strictly increasing, so its keyframes are distinct).
IsSubsequence(out, in) ==
    \A k \in 1..Len(out) : \E j \in k..Len(in) :
        /\ out[k] = in[j]
        /\ k > 1 => \E i \in 1..(j - 1) : out[k - 1] = in[i]

\* C13: endpoint preservation.  Whatever the policy, a curve of at least two
\* keyframes keeps its first and its last keyframe, and every keyframe of the
\* result is a keyframe of the input, unmodified and in the original order.
C13_EndpointPreservation ==
    BatchStep =>
        \A c \in Decimated :
            LET in == pre[c].bezt
                out == fcurves[c].bezt
            IN  /\ fcurves[c].has_bezt
                /\ IsSubsequence(out, in)
                /\ Len(in) >= 2 =>
                    /\ Len(out) >= 2
                    /\ out[1] = in[1]
                    /\ out[Len(out)] = in[Len(in)]

\* A batch that removed keyframes of a crooked curve.
C13_Witness ==
    /\ BatchStep
    /\ \E c \in Decimated :
        /\ pre[c].bezt = Zigzag
        /\ Len(fcurves[c].bezt) < Len(Zigzag)
        /\ Len(fcurves[c].bezt) > 2

Min(a, b) == IF a <= b THEN a ELSE b
Times(pts) == [i \in 1..Len(pts) |-> pts[i].time]
HalfRatio == [remove_ratio |-> One \div 2, error_sq_max |-> FLT_MAX]

\* C14: the removal count of ratio mode.  With no error limit the decimator
\* removes floor(remove_ratio * point count) keyframes, or every interior
\* keyframe when there are fewer than that; the scenario line at ratio 0.5
\* loses exactly 2 of its 3 interior keyframes.
C14_RatioRemovalCount ==
    (BatchStep /\ Policy.error_sq_max = FLT_MAX) =>
        \A c \in Decimated :
            LET n == Len(pre[c].bezt)
                removed == n - Len(fcurves[c].bezt)
            IN  /\ n >= 2 => removed = Min((Policy.remove_ratio * n) \div One, n - 2)
                /\ (pre[c].bezt = ScenarioLine /\ Policy = HalfRatio) => removed = 2

C14_Witness ==
    /\ BatchStep
    /\ Policy = HalfRatio
    /\ pre[1].bezt = ScenarioLine
    /\ Len(fcurves[1].bezt) = 3
    /\ pre[2].bezt = Bump
    /\ Len(fcurves[2].bezt) = 2

\* C15: the leftmost tie-break.  On a straight line every interior keyframe
\* costs the same, so the removed keyframes are the leftmost interior ones:
\* the result is the first keyframe followed by the last ones, and the
\* scenario line at ratio 0.5 becomes the keyframes at times 0, 3, 4.  Equal
\* inputs under one policy give equal results.
C15_LeftmostTieBreak ==
    BatchStep =>
        /\ \A c \in Decimated :
            LET in == pre[c].bezt
                out == fcurves[c].bezt
            IN  /\ (in = Line(Len(in)) /\ Len(in) >= 2) =>
                    out = <<in[1]>> \o SubSeq(in, Len(in) - Len(out) + 2, Len(in))
                /\ (in = ScenarioLine /\ Policy = HalfRatio) => Times(out) = <<0, 3, 4>>
        /\ \A c, d \in Decimated : pre[c] = pre[d] => fcurves[c] = fcurves[d]

C15_Witness ==
    /\ BatchStep
    /\ Policy = HalfRatio
    /\ pre[1].bezt = ScenarioLine
    /\ pre[2].bezt = ScenarioLine
    /\ Times(fcurves[1].bezt) = <<0, 3, 4>>

\* C16: monotonic reduction.  In ratio mode the result never has more
\* keyframes than the result of the same curve under a smaller ratio.
C16_MonotonicReduction ==
    (BatchStep /\ Policy.error_sq_max = FLT_MAX) =>
        \A c \in Decimated : \A r1 \in BatchRatios :
            r1 <= Policy.remove_ratio =>
                Len(fcurves[c].bezt) <= Len(decimate(pre[c].bezt, r1, FLT_MAX))

\* Three ratios give three strictly decreasing counts.
C16_Witness ==
    /\ BatchStep
    /\ Policy = [remove_ratio |-> (3 * One) \div 4, error_sq_max |-> FLT_MAX]
    /\ \E c \in Decimated :
        /\ Len(fcurves[c].bezt) < Len(decimate(pre[c].bezt, One \div 2, FLT_MAX))
        /\ Len(decimate(pre[c].bezt, One \div 2, FLT_MAX))
               < Len(decimate(pre[c].bezt, One \div 4, FLT_MAX))

\* The original indices of the keyframes that survived.
KeptIndices(in, out) == {j \in 1..Len(in) : \E k \in 1..Len(out) : out[k] = in[j]}
\* The squared deviation of original keyframe j from the result is at most E.
WithinBound(in, K, j, E) ==
    \/ j \in K
    \/ LET a == SetMax({k \in K : k < j})
           b == SetMin({k \in K : k > j})
       IN  Sq(Dev(in, j, a, b)) <= E * GapDen(in, a, b)

\* C17: the error bound is respected.  At the time of every original
\* keyframe the result deviates from the original by at most the error limit,
\* squared; with no limit (and ratio 1.0) exactly the two endpoints are left.
C17_ErrorBoundRespect ==
    BatchStep =>
        \A c \in Decimated :
            LET in == pre[c].bezt
                out == fcurves[c].bezt
            IN  /\ Len(in) >= 2 =>
                    \A j \in 1..Len(in) :
                        WithinBound(in, KeptIndices(in, out), j, Policy.error_sq_max)
                /\ (Len(in) >= 2 /\ Policy.remove_ratio = One
                        /\ Policy.error_sq_max = FLT_MAX) => Len(out) = 2

\* A limited batch that removed a keyframe off the chord and kept another.
C17_Witness ==
    /\ BatchStep
    /\ Policy = [remove_ratio |-> One, error_sq_max |-> 1]
    /\ pre[1].bezt = Bump
    /\ Len(fcurves[1].bezt) = 3
    /\ pre[2].bezt = Zigzag
    /\ fcurves[2].bezt = Zigzag


SessionEnded ==
    \/ ConfirmPress(last)
    \/ CancelPress(last)
    \/ last.op = "invoke" /\ ret = OPERATOR_CANCELLED

\* C19: snapshot ownership.  The session data with its copies is freed exactly
\* once by the callback that ends the session (commit, cancel, failed start),
\* by no other callback, and never while the session is Active; nothing is
\* allocated outside a session; no callback reads the copies after they are
\* freed, so that on cancel the restore comes before the free.
C19_SnapshotOwnership ==
    /\ ~freed_read
    /\ SessionEnded => frees = 1
    /\ ~SessionEnded => frees = 0
    /\ Active => customdata /\ bezt_arr_list # <<>>
    /\ ~Active => ~customdata /\ bezt_arr_list = <<>>

\* A cancel press after an update that changed a curve: the curves are back
\* and the session data is freed.
C19_Witness ==
    /\ CancelPress(last)
    /\ n_updates >= 1
    /\ frees = 1
    /\ ~customdata
    /\ fcurves = pre
    /\ \E c \in 1..NumCurves : Len(pre[c].bezt) > 2


\* The percentage of a stored ratio, truncated to an integer.
Percent(ratio) == (ratio * 100) \div One

\* C20: the status text matches the applied parameter.  Throughout a session
\* (after the start and after every update) the status text is the typed
\* number when numeric input is engaged and else the truncated percentage of
\* the stored ratio, and every decimator call of an update was given that
\* stored ratio.
C20_StatusMatchesRatio ==
    Active =>
        /\ status_text = (IF hasNumInput(num)
                          THEN [kind |-> "num", v |-> num.val]
                          ELSE [kind |-> "pct", v |-> Percent(op_remove_ratio)])
        /\ \A i \in 1..Len(calls) : calls[i].remove_ratio = op_remove_ratio

\* An update by the pointer that changed the ratio to a value strictly
\* between 0 and 1 and ran the decimator with it.
C20_Witness ==
    /\ Active
    /\ last.op = "modal"
    /\ last.event.type = "MOUSEMOVE"
    /\ calls # <<>>
    /\ status_text.kind = "pct"
    /\ status_text.v \notin {0, 100}
    /\ calls[1].remove_ratio = PointerRatio(last.event)
    /\ n_updates >= 2


\* C21 as claimed: when a session is committed, every snapshotted curve is
\* the decimation of its snapshot (the curve as it was at the start) by the
\* stored ratio, also when the commit comes right after the start.
C21_CommitMatchesStored ==
    (ConfirmPress(last) /\ ret = OPERATOR_FINISHED) =>
        \A i \in 1..Len(filtered) :
            pre[filtered[i]].has_bezt =>
                fcurves[filtered[i]] =
                    decimate_fcurve(pre[filtered[i]], op_remove_ratio, FLT_MAX).fcu


(* ------------- the session with a host that changes the selection ------ *)

\* What ANIM_animdata_filter can return: any set of curves, in channel order.
RECURSIVE InChannelOrder(_, _)
InChannelOrder(S, c) ==
    IF c > NumCurves THEN <<>>
    ELSE (IF c \in S THEN <<c>> ELSE <<>>) \o InChannelOrder(S, c + 1)
AnySelections == {InChannelOrder(S, 1) : S \in SUBSET (1..NumCurves)}

InitSel ==
    /\ fcurves \in [1..NumCurves -> SampleCurves]
    /\ filtered \in AnySelections
    /\ customdata = FALSE
    /\ area_set = FALSE
    /\ bezt_arr_list = <<>>
    /\ num = NumInputZero
    /\ op_remove_ratio = remove_ratio_default
    /\ op_mode = DECIM_RATIO
    /\ op_remove_error_margin = 0
    /\ modal_handler = FALSE
    /\ cursor_modal = FALSE
    /\ status_text = STATUS_NULL
    /\ ret = "NONE"
    /\ notifiers = 0
    /\ reports = <<>>
    /\ calls = <<>>
    /\ updated_ales = {}
    /\ frees = 0
    /\ freed_read = FALSE
    /\ null_deref = FALSE
    /\ extents = NoExtents
    /\ last = Last("none", NoEvent, TRUE)
    /\ pre = fcurves
    /\ n_updates = 0

\* The events of this specification: a confirm press, a cancel press, a key
\* the operator does not handle, and the pointer at two places.
SelEvents ==
    {Event(t, KM_PRESS, winrct_xmin, 0) : t \in {"LEFTMOUSE", "EVT_ESCKEY", "OTHER"}}
    \cup {Event("MOUSEMOVE", KM_NOTHING, x, 0) :
              x \in {winrct_xmin + winx \div 2, winrct_xmin + winx}}

\* graphkeys_decimate_invoke and graphkeys_decimate_modal; a crashed process
\* runs no callback.
InvokeSel == ~null_deref /\ Invoke
ModalSel ==
    /\ ~null_deref
    /\ modal_handler
    /\ \E event \in SelEvents :
        \E s \in {wm_handler_after(graphkeys_decimate_modal(Cur, event))} :
            /\ Becomes(s)
            /\ last' = Last("modal", event, TRUE)
            /\ n_updates' = IF s.calls # <<>> /\ n_updates < MaxCounted
                            THEN n_updates + 1 ELSE n_updates
    /\ pre' = pre

\* The modal callback returned OPERATOR_RUNNING_MODAL | OPERATOR_PASS_THROUGH:
\* the event goes on to the editor's other handlers, which may select,
\* deselect, hide or show channels.
HostSelects ==
    /\ ~null_deref
    /\ modal_handler
    /\ ret = OPERATOR_PASS_THROUGH
    /\ \E sel \in AnySelections \ {filtered} : filtered' = sel
    /\ last' = Last("host", last.event, TRUE)
    /\ UNCHANGED <<fcurves, customdata, area_set, bezt_arr_list, num, op_remove_ratio,
                   modal_handler, cursor_modal, status_text, ret, notifiers, reports,
                   calls, updated_ales, frees, freed_read, null_deref, pre, n_updates,
                   op_mode, op_remove_error_margin, extents>>

NextSel == InvokeSel \/ ModalSel \/ HostSelects

SpecSel == InitSel /\ [][NextSel]_vars

\* C22 as claimed: no restore reads past the end of the list of copies, and
\* every restore puts into each curve the keyframes copied from that very
\* curve at the start: a cancel leaves every filtered curve as it was at the
\* start, and every decimator call of an update finds its curve so; also when
\* the host changed the selection after a passed-through event.
C22_SnapshotCorrespondence ==
    /\ ~null_deref
    /\ CancelPress(last) =>
        \A i \in 1..Len(filtered) : fcurves[filtered[i]] = pre[filtered[i]]
    /\ (last.op = "modal" /\ Active) =>
        \A i \in 1..Len(calls) : calls[i].before = pre[calls[i].ale]


(* ------------- the session started with any mode property -------------- *)

InitMode ==
    /\ fcurves \in [1..NumCurves -> SampleCurves]
    /\ filtered \in Selections
    /\ customdata = FALSE
    /\ area_set = FALSE
    /\ bezt_arr_list = <<>>
    /\ num = NumInputZero
    /\ op_remove_ratio = remove_ratio_default
    /\ op_mode \in {DECIM_RATIO, DECIM_ERROR}
    /\ op_remove_error_margin \in ExecMargins
    /\ modal_handler = FALSE
    /\ cursor_modal = FALSE
    /\ status_text = STATUS_NULL
    /\ ret = "NONE"
    /\ notifiers = 0
    /\ reports = <<>>
    /\ calls = <<>>
    /\ updated_ales = {}
    /\ frees = 0
    /\ freed_read = FALSE
    /\ null_deref = FALSE
    /\ extents = NoExtents
    /\ last = Last("none", NoEvent, TRUE)
    /\ pre = fcurves
    /\ n_updates = 0

NextMode == InvokeSel \/ ModalSel

SpecMode == InitMode /\ [][NextMode]_vars

\* C23: the interactive session always decimates by ratio.  Whatever the
\* "mode" and "remove_error_margin" properties are, every decimator call of
\* an update is given the stored ratio and no error limit, and the session
\* leaves both properties as they were.
C23_SessionByRatio ==
    [][/\ \A i \in 1..Len(calls') :
            /\ calls'[i].remove_ratio = op_remove_ratio'
            /\ calls'[i].error_sq_max = FLT_MAX
       /\ op_mode' = op_mode
       /\ op_remove_error_margin' = op_remove_error_margin
      ]_vars

\* An update in a session whose mode is Error Margin with a margin that the
\* non-interactive operator would use.
C23_Witness ==
    /\ Active
    /\ calls # <<>>
    /\ op_mode = DECIM_ERROR
    /\ op_remove_error_margin > 0
    /\ op_remove_ratio \notin {0, One}
    /\ \E c \in 1..NumCurves : Len(fcurves[c].bezt) < Len(pre[c].bezt)


\* C24: one policy is effective in the non-interactive operator.  In Ratio
\* mode every decimator call is given the "remove_ratio" property and no
\* error limit, whatever the error margin is; in Error mode it is given ratio
\* 1.0 and the square of the "remove_error_margin" property, whatever the
\* remove ratio is.
C24_ExecPolicy ==
    ExecStep =>
        \A i \in 1..Len(calls) :
            /\ last.mode = DECIM_RATIO =>
                /\ calls[i].remove_ratio = op_remove_ratio
                /\ calls[i].error_sq_max = FLT_MAX
            /\ last.mode = DECIM_ERROR =>
                /\ calls[i].remove_ratio = One
                /\ calls[i].error_sq_max
                       = last.remove_error_margin * last.remove_error_margin

\* A run in Error mode with margin 2 and a remove ratio of one half.
C24_Witness ==
    /\ ExecStep
    /\ last.mode = DECIM_ERROR
    /\ last.remove_error_margin = 2
    /\ op_remove_ratio = One \div 2
    /\ calls # <<>>
    /\ calls[1].remove_ratio = One
    /\ calls[1].error_sq_max = 4


\* The event is none of confirm, cancel, pointer move, accepted numeric input.
Unhandled(n, event) ==
    /\ event.type \notin ConfirmTypes \cup CancelTypes \cup {"MOUSEMOVE"}
    /\ ~(event.val = KM_PRESS /\ handleNumInput(n, event).handled)

\* C25: unhandled events change nothing.  In an Active session an unhandled
\* event is passed through, and a pointer move with numeric input engaged or
\* a release of a confirm or cancel key is swallowed; each of them leaves the
\* session Active and the stored ratio, the copies and every curve as they
\* were, and calls the decimator on nothing.
C25_UnhandledEvents ==
    [][(Active /\ last'.op = "modal") =>
        LET event == last'.event
            same == /\ Active'
                    /\ customdata'
                    /\ op_remove_ratio' = op_remove_ratio
                    /\ bezt_arr_list' = bezt_arr_list
                    /\ num' = num
                    /\ fcurves' = fcurves
                    /\ calls' = <<>>
        IN  /\ Unhandled(num, event) => (ret' = OPERATOR_PASS_THROUGH /\ same)
            /\ ((event.type = "MOUSEMOVE" /\ hasNumInput(num))
                  \/ (event.type \in ConfirmTypes \cup CancelTypes /\ event.val = KM_RELEASE))
                => (ret' = OPERATOR_RUNNING_MODAL /\ same)
      ]_vars

\* A key the operator does not handle was pressed in a session whose curves
\* an update had reduced.
C25_Witness ==
    /\ Active
    /\ last.op = "modal"
    /\ last.event.type = "OTHER"
    /\ last.event.val = KM_PRESS
    /\ ret = OPERATOR_PASS_THROUGH
    /\ n_updates >= 1
    /\ fcurves # pre


\* C26: the modal cursor and the status text are always restored.  Outside a
\* session the window has its normal cursor and the area no status text,
\* whichever way the invocation ended (commit, cancel, no animation context,
\* no eligible curve); a callback that returns RUNNING_MODAL leaves a session
\* with its data allocated, its handler installed and the modal cursor shown.
C26_CursorStatusRestored ==
    /\ ~Active => (~cursor_modal /\ status_text = STATUS_NULL)
    /\ SessionEnded => (~Active /\ ~cursor_modal /\ status_text = STATUS_NULL)
    /\ (last.op \in {"invoke", "modal"}
          /\ ret \in {OPERATOR_RUNNING_MODAL, OPERATOR_PASS_THROUGH})
        => (Active /\ customdata /\ cursor_modal /\ status_text # STATUS_NULL)

\* A start that found the context but no curve with keyframe data.
C26_Witness ==
    /\ last.op = "invoke"
    /\ last.context_ok
    /\ filtered # <<>>
    /\ ret = OPERATOR_CANCELLED
    /\ frees = 1
    /\ ~cursor_modal
    /\ status_text = STATUS_NULL


(* --------------------------- the Euler filter -------------------------- *)

\* Channels given to the Euler filter, at most.
MaxChannels == 4

\* A rotation F-Curve: the owning ID, the RNA path, the array index and the
\* keyframes; angles are counted in quarter turns.
EulerCurve(id, rna_path, array_index, values) ==
    [id |-> id, rna_path |-> rna_path, array_index |-> array_index,
     has_bezt |-> TRUE, bezt |-> [k \in 1..Len(values) |-> BezTriple(k, values[k])]]
FullTurn == 4
\* strstr(fcu->rna_path, "rotation_euler") != NULL
IsRotationEuler(rna_path) ==
    rna_path \in {"rotation_euler", "pose.bones[\"b\"].rotation_euler"}

EulerCurves ==
    {EulerCurve("OBa", "rotation_euler", 0, <<0, 5>>),
     EulerCurve("OBa", "rotation_euler", 1, <<0, 0>>),
     EulerCurve("OBa", "rotation_euler", 2, <<1, -3>>),
     EulerCurve("OBa", "rotation_euler", 2, <<1>>),
     EulerCurve("OBa", "rotation_euler", 3, <<0, 5>>),
     EulerCurve("OBa", "pose.bones[\"b\"].rotation_euler", 1, <<0, 5>>),
     EulerCurve("OBb", "rotation_euler", 0, <<2, 7>>),
     EulerCurve("OBa", "location", 0, <<0, 5>>)}

RPT_EUL_INVALID_INDEX == "Euler Rotation F-Curve has invalid index"
RPT_EUL_MISSING == "Missing component(s) of euler rotation"
RPT_EUL_UNEQUAL == "XYZ rotations not equally keyed"
RPT_EUL_NONE == "No Euler Rotation F-Curves to fix up"
RPT_EUL_ALL_FAILED == "No Euler Rotations could be corrected"
RPT_EUL_SOME_FAILED == "Some Euler Rotations could not be corrected"
BLI_ASSERT_FAILED == "BLI_assert"

\* MEM_callocN of a tEulerFilter, then id, rna_path and one curve set;
\* 0 is a NULL curve pointer.
tEulerFilter(id, rna_path, array_index, fcu) ==
    [id |-> id, rna_path |-> rna_path,
     fcurves |-> [[i \in 0..2 |-> 0] EXCEPT ![array_index] = fcu]]

\* The loop of euler_filter_group_channels that never opens a second group.
RECURSIVE euler_filter_group_channels_loop_onegroup(_, _, _)
euler_filter_group_channels_loop_onegroup(g, anim_data, euf) ==
    IF anim_data = <<>>
    THEN g
    ELSE LET ale == Head(anim_data)
             fcu == g.s.fcurves[ale]
             rest == Tail(anim_data)
         IN  IF ~IsRotationEuler(fcu.rna_path)
             THEN euler_filter_group_channels_loop_onegroup(g, rest, euf)
             ELSE IF fcu.array_index \notin {0, 1, 2}
             THEN euler_filter_group_channels_loop_onegroup(
                      [g EXCEPT !.s.reports = Append(@, RPT_EUL_INVALID_INDEX)], rest, euf)
             ELSE LET g1 == [g EXCEPT !.s.updated_ales = @ \cup {ale}]
                  IN  IF euf # 0
                      THEN euler_filter_group_channels_loop_onegroup(
                               [g1 EXCEPT !.eulers[euf].fcurves[fcu.array_index] = ale],
                               rest, euf)
                      ELSE euler_filter_group_channels_loop_onegroup(
                               [g1 EXCEPT !.eulers = Append(@, tEulerFilter(
                                              fcu.id, fcu.rna_path, fcu.array_index, ale)),
                                          !.num_groups = @ + 1],
                               rest, Len(g1.eulers) + 1)

\* LISTBASE_FOREACH (bAnimListElem *, ale, anim_data) of
\* euler_filter_group_channels; euf is the position of the group last opened
\* (0: NULL).
RECURSIVE euler_filter_group_channels_loop(_, _, _)
euler_filter_group_channels_loop(g, anim_data, euf) ==
    IF anim_data = <<>>
    THEN g
    ELSE LET ale == Head(anim_data)
             fcu == g.s.fcurves[ale]
             rest == Tail(anim_data)
         IN  IF ~IsRotationEuler(fcu.rna_path)
             THEN euler_filter_group_channels_loop(g, rest, euf)
             ELSE IF fcu.array_index \notin {0, 1, 2}
             THEN euler_filter_group_channels_loop(
                      [g EXCEPT !.s.reports = Append(@, RPT_EUL_INVALID_INDEX)], rest, euf)
             ELSE LET g1 == [g EXCEPT !.s.updated_ales = @ \cup {ale}]
                  IN  IF euf # 0 /\ g1.eulers[euf].id = fcu.id
                           /\ g1.eulers[euf].rna_path = fcu.rna_path
                      THEN euler_filter_group_channels_loop(
                               [g1 EXCEPT !.eulers[euf].fcurves[fcu.array_index] = ale],
                               rest, euf)
                      ELSE euler_filter_group_channels_loop(
                               [g1 EXCEPT !.eulers = Append(@, tEulerFilter(
                                              fcu.id, fcu.rna_path, fcu.array_index, ale)),
                                          !.num_groups = @ + 1],
                               rest, Len(g1.eulers) + 1)

\* Find groups of rotation_euler channels: the state (reports, update flags),
\* the list of groups and *r_num_groups.
euler_filter_group_channels(s, anim_data) ==
    euler_filter_group_channels_loop([s |-> s, eulers |-> <<>>, num_groups |-> 0],
                                     anim_data, 0)


\* eul_to_quat followed by quat_to_compatible_eul, for one axis: the angle
\* equivalent to value that is nearest to the previous keyframe's.
CompatibleAngle(last_angle, value) ==
    LET d == (value - last_angle) % FullTurn
    IN  last_angle + (IF 2 * d <= FullTurn THEN d ELSE d - FullTurn)

\* The keyframe loop of euler_filter_quaternion on one curve: every keyframe
\* from keyframe_index on is moved next to the one before it.
RECURSIVE euler_filter_keyframes(_, _, _)
euler_filter_keyframes(bezt, keyframe_index, last_angle) ==
    IF keyframe_index > Len(bezt)
    THEN bezt
    ELSE LET angle == CompatibleAngle(last_angle, bezt[keyframe_index].value)
         IN  euler_filter_keyframes([bezt EXCEPT ![keyframe_index].value = angle],
                                    keyframe_index + 1, angle)

\* euler_filter_quaternion that filters the curves it has when some are
\* missing or unequally keyed, and then reports failure.
euler_filter_quaternion_late(s, euf) ==
    LET filtered_s ==
            [s EXCEPT !.fcurves = [c \in DOMAIN s.fcurves |->
                IF c \in {euf.fcurves[i] : i \in 0..2} /\ Len(s.fcurves[c].bezt) >= 2
                THEN [s.fcurves[c] EXCEPT !.bezt =
                         euler_filter_keyframes(@, 2, @[1].value)]
                ELSE s.fcurves[c]]]
    IN  IF \E i \in 0..2 : euf.fcurves[i] = 0
        THEN [ok |-> FALSE, s |-> [filtered_s EXCEPT !.reports = Append(@, RPT_EUL_MISSING)]]
        ELSE IF \E i, j \in 0..2 : Len(s.fcurves[euf.fcurves[i]].bezt)
                                      # Len(s.fcurves[euf.fcurves[j]].bezt)
        THEN [ok |-> FALSE, s |-> [filtered_s EXCEPT !.reports = Append(@, RPT_EUL_UNEQUAL)]]
        ELSE [ok |-> TRUE, s |-> filtered_s]

\* Perform the discontinuity filter on one group; ok is the return value.
euler_filter_quaternion(s, euf) ==
    IF \E i \in 0..2 : euf.fcurves[i] = 0
    THEN [ok |-> FALSE, s |-> [s EXCEPT !.reports = Append(@, RPT_EUL_MISSING)]]
    ELSE LET x == euf.fcurves[0]
             y == euf.fcurves[1]
             z == euf.fcurves[2]
         IN  IF Len(s.fcurves[x].bezt) # Len(s.fcurves[y].bezt)
                  \/ Len(s.fcurves[y].bezt) # Len(s.fcurves[z].bezt)
             THEN [ok |-> FALSE, s |-> [s EXCEPT !.reports = Append(@, RPT_EUL_UNEQUAL)]]
             ELSE IF Len(s.fcurves[x].bezt) < 2
             THEN [ok |-> TRUE, s |-> s]
             ELSE [ok |-> TRUE,
                   s |-> [s EXCEPT !.fcurves = [c \in DOMAIN s.fcurves |->
                            IF c \in {x, y, z}
                            THEN [s.fcurves[c] EXCEPT !.bezt =
                                     euler_filter_keyframes(@, 2, @[1].value)]
                            ELSE s.fcurves[c]]]]

\* LISTBASE_FOREACH (tEulerFilter *, euf, eulers): the state and the number
\* of groups that failed.
RECURSIVE euler_filter_perform_filter(_, _)
euler_filter_perform_filter(s, eulers) ==
    IF eulers = <<>>
    THEN [failed |-> 0, s |-> s]
    ELSE LET q == euler_filter_quaternion(s, Head(eulers))
             r == euler_filter_perform_filter(q.s, Tail(eulers))
         IN  [failed |-> r.failed + (IF q.ok THEN 0 ELSE 1), s |-> r.s]

\* graphkeys_euler_filter_exec that notifies and finishes whenever a group
\* was found.
graphkeys_euler_filter_exec_always(s0, context_ok) ==
    LET s == Entry(s0)
        g == euler_filter_group_channels(s, ANIM_animdata_filter(s))
        p == euler_filter_perform_filter(g.s, g.eulers)
    IN  IF ~context_ok
        THEN [s EXCEPT !.ret = OPERATOR_CANCELLED]
        ELSE IF g.num_groups = 0
        THEN [g.s EXCEPT !.reports = Append(@, RPT_EUL_NONE), !.ret = OPERATOR_CANCELLED]
        ELSE [p.s EXCEPT !.reports = IF p.failed > 0 THEN Append(@, RPT_EUL_SOME_FAILED)
                                     ELSE @,
                         !.notifiers = @ + 1,
                         !.ret = OPERATOR_FINISHED]

graphkeys_euler_filter_exec(s0, context_ok) ==
    LET s == Entry(s0)
        g == euler_filter_group_channels(s, ANIM_animdata_filter(s))
        p == euler_filter_perform_filter(g.s, g.eulers)
    IN  IF ~context_ok
        THEN [s EXCEPT !.ret = OPERATOR_CANCELLED]
        ELSE IF Len(g.eulers) # g.num_groups
        THEN [g.s EXCEPT !.ret = BLI_ASSERT_FAILED]
        ELSE IF g.num_groups = 0
        THEN [g.s EXCEPT !.reports = Append(@, RPT_EUL_NONE), !.ret = OPERATOR_CANCELLED]
        ELSE IF p.failed = g.num_groups
        THEN [p.s EXCEPT !.reports = Append(@, RPT_EUL_ALL_FAILED),
                         !.ret = OPERATOR_CANCELLED]
        ELSE [p.s EXCEPT !.reports = IF p.failed > 0 THEN Append(@, RPT_EUL_SOME_FAILED)
                                     ELSE @,
                         !.notifiers = @ + 1,
                         !.ret = OPERATOR_FINISHED]

\* The channel lists given to the operator: up to MaxChannels curves, all
\* of them visible, selected and editable.
EulerInputs ==
    UNION {[1..n -> EulerCurves] : n \in 0..MaxChannels}

InitEuler ==
    /\ fcurves \in EulerInputs
    /\ filtered = [i \in 1..Len(fcurves) |-> i]
    /\ customdata = FALSE
    /\ area_set = FALSE
    /\ bezt_arr_list = <<>>
    /\ num = NumInputZero
    /\ op_remove_ratio = remove_ratio_default
    /\ op_mode = DECIM_RATIO
    /\ op_remove_error_margin = 0
    /\ modal_handler = FALSE
    /\ cursor_modal = FALSE
    /\ status_text = STATUS_NULL
    /\ ret = "NONE"
    /\ notifiers = 0
    /\ reports = <<>>
    /\ calls = <<>>
    /\ updated_ales = {}
    /\ frees = 0
    /\ freed_read = FALSE
    /\ null_deref = FALSE
    /\ extents = NoExtents
    /\ last = Last("none", NoEvent, TRUE)
    /\ pre = fcurves
    /\ n_updates = 0

\* The operator runs: graphkeys_euler_filter_exec.
EulerFilter ==
    /\ \E context_ok \in BOOLEAN :
        \E s \in {graphkeys_euler_filter_exec(Cur, context_ok)} :
            /\ Becomes(s)
            /\ last' = Last("euler", NoEvent, context_ok)
    /\ pre' = fcurves
    /\ n_updates' = 0

NextEuler == EulerFilter

SpecEuler == InitEuler /\ [][NextEuler]_vars


\* The operator ran with an animation context.
EulerStep == last.op = "euler" /\ last.context_ok
\* The groups the operator found in the channels as they were before it ran.
EulerGroups == euler_filter_group_channels([Cur EXCEPT !.fcurves = pre], filtered).eulers
\* A group that cannot be filtered: a component is missing, or its three
\* curves do not have the same number of keyframes.
GroupFails(euf) ==
    \/ \E i \in 0..2 : euf.fcurves[i] = 0
    \/ \E i, j \in 0..2 : Len(pre[euf.fcurves[i]].bezt) # Len(pre[euf.fcurves[j]].bezt)
Reported(text) == \E i \in 1..Len(reports) : reports[i] = text

\* C27: the outcome of the Euler filter.  Without a group, or with every
\* group failing, the operator returns CANCELLED and issues no notifier; with
\* a group that succeeds it returns FINISHED and issues one; the "some could
\* not be corrected" warning is reported exactly when some groups failed and
\* some succeeded; the curves of a failing group are left as they were.
C27_EulerOutcome ==
    EulerStep =>
        LET G == EulerGroups
            failing == {k \in 1..Len(G) : GroupFails(G[k])}
            succeeding == (1..Len(G)) \ failing
        IN  /\ succeeding = {} => (ret = OPERATOR_CANCELLED /\ notifiers = 0)
            /\ succeeding # {} => (ret = OPERATOR_FINISHED /\ notifiers = 1)
            /\ Reported(RPT_EUL_SOME_FAILED) <=> (failing # {} /\ succeeding # {})
            /\ \A k \in failing : \A i \in 0..2 :
                G[k].fcurves[i] # 0 => fcurves[G[k].fcurves[i]] = pre[G[k].fcurves[i]]

\* One group was filtered and changed, another failed.
C27_Witness ==
    /\ EulerStep
    /\ ret = OPERATOR_FINISHED
    /\ Reported(RPT_EUL_SOME_FAILED)
    /\ Reported(RPT_EUL_MISSING)
    /\ fcurves # pre


\* What euler_filter_group_channels returns for the channels the operator was
\* given: the groups and the group count.
EulerGrouping == euler_filter_group_channels([Cur EXCEPT !.fcurves = pre], filtered)
\* The channel takes part in the grouping.
EulerChannel(c) == IsRotationEuler(pre[c].rna_path) /\ pre[c].array_index \in {0, 1, 2}
SameRotation(c, d) == pre[c].id = pre[d].id /\ pre[c].rna_path = pre[d].rna_path
InGroup(euf, c) == \E i \in 0..2 : euf.fcurves[i] = c

MaxExtentChannels == 2

\* Floats of the extents are counted in ten-thousandths: 1.0f is ExtentUnit.
ExtentUnit == 10000
\* 999999999.0f does not fit the integers of the check in ten-thousandths; the
\* initial value only has to lie beyond every keyframe, and 999999999
\* ten-thousandths does.
EXTENT_HUGE == 999999999
EXTENT_MIN_RANGE == 10
EXTENT_PAD == 5
\* fabsf
Fabs(x) == IF x < 0 THEN -x ELSE x

\* What BKE_fcurve_calc_bounds gives for a channel, after the NLA remapping
\* and the unit correction: no bounds, or txmin, txmax, tymin, tymax.
NoKeyBounds == [found |-> FALSE, txmin |-> 0, txmax |-> 0, tymin |-> 0, tymax |-> 0]
KeyBounds(txmin, txmax, tymin, tymax) ==
    [found |-> TRUE, txmin |-> txmin, txmax |-> txmax, tymin |-> tymin, tymax |-> tymax]
ExtentFrames == {ExtentUnit, ExtentUnit + 4}
ExtentValues == {0, 9, 10}
ExtentCurves ==
    {NoKeyBounds} \cup
    {KeyBounds(fr[1], fr[2], va[1], va[2]) :
        fr \in {p \in ExtentFrames \X ExtentFrames : p[1] <= p[2]},
        va \in {p \in ExtentValues \X ExtentValues : p[1] <= p[2]}}

\* ac->scene: NULL, or a scene with its frame range (PSFRA, PEFRA).
NoScene == [null |-> TRUE, psfra |-> 0, pefra |-> 0]
Scene(psfra, pefra) == [null |-> FALSE, psfra |-> psfra, pefra |-> pefra]
Scenes == {NoScene, Scene(1 * ExtentUnit, 250 * ExtentUnit)}
\* Which of xmin, xmax, ymin, ymax the caller passes non-NULL: the x range
\* only (graphkeys_previewrange_exec), both ranges (graphkeys_viewall), or the
\* y range only.
ExtentArgs == {{"xmin", "xmax"}, {"xmin", "xmax", "ymin", "ymax"}, {"ymin", "ymax"}}

\* if (p) *p = v
SetExtent(e, p, v) == IF p \in e.want THEN [e EXCEPT ![p] = v] ELSE e

\* The loop of get_graph_keyframe_extents over the channels: the extents and
\* foundBounds.
RECURSIVE get_graph_keyframe_extents_loop(_, _, _)
get_graph_keyframe_extents_loop(r, curves, anim_data) ==
    IF anim_data = <<>>
    THEN r
    ELSE LET fcu == curves[Head(anim_data)]
             e == r.e
             e1 == IF fcu.txmin < e.xmin THEN SetExtent(e, "xmin", fcu.txmin) ELSE e
             e2 == IF fcu.txmax > e1.xmax THEN SetExtent(e1, "xmax", fcu.txmax) ELSE e1
             e3 == IF fcu.tymin < e2.ymin THEN SetExtent(e2, "ymin", fcu.tymin) ELSE e2
             e4 == IF fcu.tymax > e3.ymax THEN SetExtent(e3, "ymax", fcu.tymax) ELSE e3
         IN  IF fcu.found
             THEN get_graph_keyframe_extents_loop([e |-> e4, foundBounds |-> TRUE],
                                                  curves, Tail(anim_data))
             ELSE get_graph_keyframe_extents_loop(r, curves, Tail(anim_data))


\* get_graph_keyframe_extents(ac, xmin, xmax, ymin, ymax, ...): want is the set
\* of non-NULL pointers, scene is ac->scene.  A pointer that is NULL leaves
\* its slot as it was.
get_graph_keyframe_extents(s, want, scene) ==
    LET e0 == [s.extents EXCEPT !.want = want]
        initial == SetExtent(SetExtent(SetExtent(SetExtent(e0,
                       "xmin", EXTENT_HUGE), "xmax", -EXTENT_HUGE),
                       "ymin", EXTENT_HUGE), "ymax", -EXTENT_HUGE)
        Defaults(e, lo, hi) ==
            SetExtent(SetExtent(SetExtent(SetExtent(e,
                "xmin", lo), "xmax", hi), "ymin", -5 * ExtentUnit), "ymax", 5 * ExtentUnit)
    IN  IF s.filtered # <<>>
        THEN LET r == get_graph_keyframe_extents_loop(
                          [e |-> initial, foundBounds |-> FALSE], s.fcurves, s.filtered)
                 e == r.e
             IN  IF r.foundBounds
                 THEN LET ex == IF {"xmin", "xmax"} \subseteq want
                                   /\ Fabs(e.xmax - e.xmin) < EXTENT_MIN_RANGE
                                THEN [e EXCEPT !.xmin = @ - EXTENT_PAD,
                                               !.xmax = @ + EXTENT_PAD]
                                ELSE e
                          ey == IF {"ymin", "ymax"} \subseteq want
                                   /\ Fabs(ex.ymax - ex.ymin) < EXTENT_MIN_RANGE
                                THEN [ex EXCEPT !.ymax = (@ - EXTENT_PAD) + EXTENT_PAD]
                                ELSE ex
                      IN  [s EXCEPT !.extents = ey]
                 ELSE IF scene.null /\ want \cap {"xmin", "xmax"} # {}
                 THEN [s EXCEPT !.extents = initial, !.null_deref = TRUE]
                 ELSE [s EXCEPT !.extents =
                          IF scene.null THEN Defaults(initial, 0, 0)
                          ELSE Defaults(initial, scene.psfra, scene.pefra)]
        ELSE IF ~scene.null
        THEN [s EXCEPT !.extents = Defaults(initial, scene.psfra, scene.pefra)]
        ELSE [s EXCEPT !.extents = Defaults(initial, -5 * ExtentUnit, 100 * ExtentUnit)]

ExtentInputs == UNION {[1..n -> ExtentCurves] : n \in 0..MaxExtentChannels}

InitExtents ==
    /\ fcurves \in ExtentInputs
    /\ filtered = [i \in 1..Len(fcurves) |-> i]
    /\ customdata = FALSE
    /\ area_set = FALSE
    /\ bezt_arr_list = <<>>
    /\ num = NumInputZero
    /\ op_remove_ratio = remove_ratio_default
    /\ op_mode = DECIM_RATIO
    /\ op_remove_error_margin = 0
    /\ modal_handler = FALSE
    /\ cursor_modal = FALSE
    /\ status_text = STATUS_NULL
    /\ ret = "NONE"
    /\ notifiers = 0
    /\ reports = <<>>
    /\ calls = <<>>
    /\ updated_ales = {}
    /\ frees = 0
    /\ freed_read = FALSE
    /\ null_deref = FALSE
    /\ extents = NoExtents
    /\ last = Last("none", NoEvent, TRUE)
    /\ pre = fcurves
    /\ n_updates = 0

\* A caller asks for the extents of the visible keyframes.
GetExtents ==
    /\ ~null_deref
    /\ \E want \in ExtentArgs, scene \in Scenes :
        \E s \in {get_graph_keyframe_extents(Cur, want, scene)} :
            /\ Becomes(s)
            /\ last' = Last("extents", NoEvent, TRUE)
    /\ pre' = fcurves
    /\ n_updates' = 0

NextExtents == GetExtents

SpecExtents == InitExtents /\ [][NextExtents]_vars


\* The channels in which BKE_fcurve_calc_bounds found bounds.
FoundBounds == {c \in 1..Len(fcurves) : fcurves[c].found}
\* The least and greatest of a non-empty set of numbers.
Least(S) == CHOOSE v \in S : \A w \in S : v <= w
Greatest(S) == CHOOSE v \in S : \A w \in S : v >= w
\* The range [lo, hi] as the function has to return it.
Widened(lo, hi, min, max) ==
    IF hi - lo < EXTENT_MIN_RANGE
    THEN min = lo - EXTENT_PAD /\ max = hi + EXTENT_PAD
    ELSE min = lo /\ max = hi

\* C29: when bounds were found and both ends of an axis are requested, a
\* range narrower than 0.001 is returned widened by 0.0005 at each end, on x
\* and on y alike, so that max - min >= 0.001 on both axes.
C29_ExtentsNotDegenerate ==
    (last.op = "extents" /\ ~null_deref /\ FoundBounds # {}) =>
        /\ {"xmin", "xmax"} \subseteq extents.want =>
            /\ Widened(Least({fcurves[c].txmin : c \in FoundBounds}),
                       Greatest({fcurves[c].txmax : c \in FoundBounds}),
                       extents.xmin, extents.xmax)
            /\ extents.xmax - extents.xmin >= EXTENT_MIN_RANGE
        /\ {"ymin", "ymax"} \subseteq extents.want =>
            /\ Widened(Least({fcurves[c].tymin : c \in FoundBounds}),
                       Greatest({fcurves[c].tymax : c \in FoundBounds}),
                       extents.ymin, extents.ymax)
            /\ extents.ymax - extents.ymin >= EXTENT_MIN_RANGE


(* ------------------------- delete invalid drivers ---------------------- *)

MaxDriverChannels == 4

\* An F-Curve as the operator reads it: fcu->driver is NULL ("none"), valid,
\* or flagged DRIVER_FLAG_INVALID; removable is what ANIM_remove_driver will
\* return for it.  A removed driver curve is marked "removed".
DriverCurve(driver, removable) == [driver |-> driver, removable |-> removable]
DriverCurves ==
    {DriverCurve("none", TRUE), DriverCurve("valid", TRUE),
     DriverCurve("invalid", TRUE), DriverCurve("invalid", FALSE)}
\* WM_reportf(RPT_INFO, text, n)
Report(text, n) == [text |-> text, n |-> n]
RPT_DRIVERS_DELETED(deleted) == Report("Deleted %u drivers", deleted)
RPT_NO_DRIVERS == Report("No drivers deleted", 0)

\* ANIM_remove_driver: the call is recorded; on success the driver curve is
\* gone.
ANIM_remove_driver(s, ale) ==
    LET s1 == [s EXCEPT !.calls = Append(@, ale)]
    IN  IF s.fcurves[ale].removable
        THEN [ok |-> TRUE, s |-> [s1 EXCEPT !.fcurves[ale].driver = "removed"]]
        ELSE [ok |-> FALSE, s |-> s1]

\* The loop of graph_driver_delete_invalid_exec: r holds the state, ok and
\* deleted.
RECURSIVE graph_driver_delete_invalid_loop(_, _)
graph_driver_delete_invalid_loop(r, anim_data) ==
    IF anim_data = <<>>
    THEN r
    ELSE LET ale == Head(anim_data)
             fcu == r.s.fcurves[ale]
         IN  IF fcu.driver # "invalid"
             THEN graph_driver_delete_invalid_loop(r, Tail(anim_data))
             ELSE LET rm == ANIM_remove_driver(r.s, ale)
                      ok == r.ok \/ rm.ok
                  IN  IF ~ok
                      THEN [r EXCEPT !.s = rm.s, !.ok = ok]
                      ELSE graph_driver_delete_invalid_loop(
                               [s |-> rm.s, ok |-> ok, deleted |-> r.deleted + 1],
                               Tail(anim_data))

graph_driver_delete_invalid_exec(s0, context_ok) ==
    LET s == Entry(s0)
    IN  IF ~context_ok
        THEN [s EXCEPT !.ret = OPERATOR_CANCELLED]
        ELSE LET r == graph_driver_delete_invalid_loop(
                          [s |-> s, ok |-> FALSE, deleted |-> 0], s.filtered)
                 s1 == IF r.deleted > 0
                       THEN [r.s EXCEPT !.notifiers = @ + 1,
                                        !.reports = Append(@, RPT_DRIVERS_DELETED(r.deleted))]
                       ELSE [r.s EXCEPT !.reports = Append(@, RPT_NO_DRIVERS)]
             IN  [s1 EXCEPT !.ret = IF ~r.ok THEN OPERATOR_CANCELLED ELSE OPERATOR_FINISHED]

DriverInputs == UNION {[1..n -> DriverCurves] : n \in 0..MaxDriverChannels}

InitDrivers ==
    /\ fcurves \in DriverInputs
    /\ filtered = [i \in 1..Len(fcurves) |-> i]
    /\ customdata = FALSE
    /\ area_set = FALSE
    /\ bezt_arr_list = <<>>
    /\ num = NumInputZero
    /\ op_remove_ratio = remove_ratio_default
    /\ op_mode = DECIM_RATIO
    /\ op_remove_error_margin = 0
    /\ modal_handler = FALSE
    /\ cursor_modal = FALSE
    /\ status_text = STATUS_NULL
    /\ ret = "NONE"
    /\ notifiers = 0
    /\ reports = <<>>
    /\ calls = <<>>
    /\ updated_ales = {}
    /\ frees = 0
    /\ freed_read = FALSE
    /\ null_deref = FALSE
    /\ extents = NoExtents
    /\ last = Last("none", NoEvent, TRUE)
    /\ pre = fcurves
    /\ n_updates = 0

\* The operator runs: graph_driver_delete_invalid_exec.
DeleteInvalidDrivers ==
    /\ \E context_ok \in BOOLEAN :
        \E s \in {graph_driver_delete_invalid_exec(Cur, context_ok)} :
            /\ Becomes(s)
            /\ last' = Last("drivers", NoEvent, context_ok)
    /\ pre' = fcurves
    /\ n_updates' = 0

NextDrivers == DeleteInvalidDrivers

SpecDrivers == InitDrivers /\ [][NextDrivers]_vars

\* The invalid drivers the last run removed.
RemovedDrivers ==
    {c \in 1..Len(pre) : pre[c].driver = "invalid" /\ fcurves[c].driver = "removed"}

\* C30: the operator reports what it did: the count of "Deleted %u drivers"
\* is the number of invalid drivers whose removal succeeded; no removal is
\* attempted after one that failed; the operator returns FINISHED exactly
\* when a driver was removed; without an invalid driver it returns CANCELLED
\* and reports "No drivers deleted".
C30_DeleteReportsWhatItDid ==
    (last.op = "drivers" /\ last.context_ok) =>
        /\ RemovedDrivers # {} =>
            reports = <<RPT_DRIVERS_DELETED(Cardinality(RemovedDrivers))>>
        /\ \A i \in 1..Len(calls) : ~pre[calls[i]].removable => i = Len(calls)
        /\ (ret = OPERATOR_FINISHED) <=> (RemovedDrivers # {})
        /\ (\A c \in 1..Len(pre) : pre[c].driver # "invalid") =>
            (ret = OPERATOR_CANCELLED /\ reports = <<RPT_NO_DRIVERS>>)

====
